---------------------------- MODULE Spec2Model ----------------------------
(***************************************************************************)
(* A model of the form state machine of tui_form_widget (src/form.rs) and  *)
(* of the render-state projection of its widget (src/widget.rs).           *)
(*                                                                         *)
(* Field indices are 0-based, as in the Rust code; the TLA+ sequence of    *)
(* field buffers is 1-based, so field i of the code is fields[i + 1].      *)
(* A text buffer (String) is a sequence of one-character strings.          *)
(***************************************************************************)
EXTENDS Integers, Sequences, FiniteSets, TLC

VARIABLES
    fields,         \* Form::fields: Vec<FieldBuffer>, each [name, val]
    selected,       \* Form::selected: FormSelection
    submitted,      \* Form::submitted: bool
    validation_fn,  \* Form::validation_fn: the stored validator closure
    default_field_style,  \* Form::default_field_style: Style
    invalid_field_style,  \* Form::invalid_field_style: Style
    hovered_field_style,  \* Form::hovered_field_style: Style
    active_field_style,   \* Form::active_field_style: Style
    panicked,       \* TRUE once an operation has panicked (the thread unwinds)
    op,             \* the operation that produced this state (history)
    scenario        \* how many keys of ScenarioAKeys the history is, or Off

\* The four style attributes of the form.
style_vars == <<default_field_style, invalid_field_style, hovered_field_style,
                active_field_style>>

vars == <<fields, selected, submitted, validation_fn, style_vars, panicked, op,
          scenario>>

-----------------------------------------------------------------------------
(* Bounds of the model. *)

\* The largest number of fields a constructed form has.
MaxFields == 3

\* Off the script of scenario A, characters are appended only while the
\* buffers hold fewer than this many characters in total.
MaxChars == 2

-----------------------------------------------------------------------------
(* Values. *)

\* usize::MAX. TLC's integers are 32-bit, so the largest value of the model's
\* usize is the largest TLC integer: what the code does with it depends only
\* on its being far above every field count and on its successor overflowing.
UsizeMax == 2147483647

\* enum FormSelection
NoSelection == <<"NoSelection">>
Hovered(i) == <<"Hovered", i>>
Active(i) == <<"Active", i>>

\* crossterm's KeyCode: the variants input() names, and one it does not.
Enter == <<"Enter">>
Esc == <<"Esc">>
Backspace == <<"Backspace">>
Tab == <<"Tab">>
Char(c) == <<"Char", c>>

\* The printable characters typed: the two navigation characters and one
\* other.
Chars == {"j", "k", "x"}

\* The key codes pressed.
Keys == {Enter, Esc, Backspace, Tab} \cup {Char(c) : c \in Chars}

\* ratatui's Style values: Style::default() and the three other styles
\* Form::default() sets.
StyleDefault == "Style::default()"
StyleRedBold == "Style::default().red().bold()"
StyleCyan == "Style::default().cyan()"
StyleCyanBold == "Style::default().cyan().bold()"

\* The styles the style mutators are called with.
StyleArgs == {"Style::default().yellow()", "Style::default().magenta()"}

\* A pre-filled buffer value, as passed to From<Vec<(&str, &str)>>.
Alice == <<"a", "l", "i", "c", "e">>

\* The field titles forms are constructed from.
FieldName(i) ==
    CASE i = 1 -> "Account"
      [] i = 2 -> "Username"
      [] i = 3 -> "Password"
      [] OTHER -> "Notes"

\* The validator closures forms are constructed with: the default one
\* (|f| !f.is_empty()) and a custom one (|f| f.len() >= 2).
Validators == {"non_empty", "len_ge_2"}

\* (self.validation_fn)(&fb.val)
Validate(fn, val) ==
    IF fn = "non_empty" THEN val # <<>> ELSE Len(val) >= 2

-----------------------------------------------------------------------------
(* usize arithmetic.  An overflowing + or - panics in a build with overflow  *)
(* checks (debug) and wraps in one without (release): both outcomes.         *)

Ok(v) == [panic |-> FALSE, val |-> v]
Panic == [panic |-> TRUE, val |-> 0]

\* i + 1
AddOne(i) == IF i = UsizeMax THEN {Panic, Ok(0)} ELSE {Ok(i + 1)}

\* len - 1
SubOne(len) == IF len = 0 THEN {Panic, Ok(UsizeMax)} ELSE {Ok(len - 1)}

\* a.rem_euclid(n): panics when n = 0
RemEuclid(a, n) == IF n = 0 THEN Panic ELSE Ok(a % n)

-----------------------------------------------------------------------------
(* The operations of Form, as functions from the form (a record of its       *)
(* mutable fields) to the set of outcomes the call can have.                 *)

\* The form as the operations see it (&mut self).
self == [selected |-> selected, fields |-> fields, submitted |-> submitted,
         panicked |-> FALSE]

\* The call panicked: nothing was assigned.
Unwind(s) == [s EXCEPT !.panicked = TRUE]

\* Form::select
select(s, sel) == {[s EXCEPT !.selected = sel]}

\* deselect that clears a hover and keeps an active field.
deselect_HoverOnly(s) ==
    IF s.selected[1] = "Active" THEN {s} ELSE {[s EXCEPT !.selected = NoSelection]}

\* deselect that also clears the submitted flag.
deselect_ClearsSubmitted(s) ==
    {[s EXCEPT !.selected = NoSelection, !.submitted = FALSE]}

\* Form::deselect
deselect(s) == {[s EXCEPT !.selected = NoSelection]}

\* Form::submitted (the setter)
set_submitted(s, b) == {[s EXCEPT !.submitted = b]}

\* NextIndex without the remainder: i + 1.
NextIndex_NoRem(i, n) ==
    {IF a.panic THEN Panic ELSE Ok(a.val) : a \in AddOne(i)}

\* (i + 1).rem_euclid(self.fields.len())
NextIndex(i, n) ==
    {IF a.panic THEN Panic ELSE RemEuclid(a.val, n) : a \in AddOne(i)}

\* PrevIndex that stops at the first field instead of wrapping to the last.
PrevIndex_NoWrap(i, n) == IF i = 0 THEN {Ok(0)} ELSE {Ok(i - 1)}

\* if i == 0 { self.fields.len() - 1 } else { i - 1 }
PrevIndex(i, n) == IF i = 0 THEN SubOne(n) ELSE {Ok(i - 1)}

\* next_field that drops an active field back to a hover as it advances.
next_field_LeavesEdit(s) ==
    LET n == Len(s.fields) IN
    CASE s.selected = NoSelection -> {[s EXCEPT !.selected = Hovered(0)]}
      [] OTHER ->
            {IF r.panic THEN Unwind(s) ELSE [s EXCEPT !.selected = Hovered(r.val)]
                : r \in NextIndex(s.selected[2], n)}

\* Form::next_field
next_field(s) ==
    LET n == Len(s.fields) IN
    CASE s.selected = NoSelection -> {[s EXCEPT !.selected = Hovered(0)]}
      [] s.selected[1] = "Hovered" ->
            {IF r.panic THEN Unwind(s) ELSE [s EXCEPT !.selected = Hovered(r.val)]
                : r \in NextIndex(s.selected[2], n)}
      [] s.selected[1] = "Active" ->
            {IF r.panic THEN Unwind(s) ELSE [s EXCEPT !.selected = Active(r.val)]
                : r \in NextIndex(s.selected[2], n)}

\* Form::prev_field
prev_field(s) ==
    LET n == Len(s.fields) IN
    CASE s.selected = NoSelection -> {[s EXCEPT !.selected = Hovered(0)]}
      [] s.selected[1] = "Hovered" ->
            {IF r.panic THEN Unwind(s) ELSE [s EXCEPT !.selected = Hovered(r.val)]
                : r \in PrevIndex(s.selected[2], n)}
      [] s.selected[1] = "Active" ->
            {IF r.panic THEN Unwind(s) ELSE [s EXCEPT !.selected = Active(r.val)]
                : r \in PrevIndex(s.selected[2], n)}

\* StrPop that removes the first character.
StrPop_Front(val) == IF val = <<>> THEN val ELSE Tail(val)

\* String::pop: removes the last character, if there is one
StrPop(val) == IF val = <<>> THEN val ELSE SubSeq(val, 1, Len(val) - 1)

\* String::push
StrPush(val, ch) == Append(val, ch)

\* Form::pop_field: self.fields[field] panics when field is out of bounds
pop_field(s, field) ==
    IF field >= Len(s.fields)
    THEN {Unwind(s)}
    ELSE {[s EXCEPT !.fields[field + 1].val = StrPop(@)]}

\* Form::append_field: self.fields[field] panics when field is out of bounds
append_field(s, ch, field) ==
    IF field >= Len(s.fields)
    THEN {Unwind(s)}
    ELSE {[s EXCEPT !.fields[field + 1].val = StrPush(@, ch)]}

\* append_selection that edits the hovered field as it does the active one.
append_selection_OnHover(s, ch) ==
    IF s.selected = NoSelection THEN {s} ELSE append_field(s, ch, s.selected[2])

\* Form::append_selection
append_selection(s, ch) ==
    IF s.selected[1] = "Active" THEN append_field(s, ch, s.selected[2]) ELSE {s}

\* Form::pop_selection
pop_selection(s) ==
    IF s.selected[1] = "Active" THEN pop_field(s, s.selected[2]) ELSE {s}

\* input_active whose Esc deselects instead of dropping back to Hovered(i).
input_active_EscDeselects(s, key, i) ==
    CASE key = Enter -> next_field(s)
      [] key = Esc -> select(s, NoSelection)
      [] key = Backspace -> pop_field(s, i)
      [] key[1] = "Char" -> append_field(s, key[2], i)
      [] OTHER -> {s}

\* input_active that navigates on 'j' and 'k' as the other branch does.
input_active_NavChars(s, key, i) ==
    CASE key = Enter -> next_field(s)
      [] key = Esc -> select(s, Hovered(i))
      [] key = Backspace -> pop_field(s, i)
      [] key = Char("j") -> next_field(s)
      [] key = Char("k") -> prev_field(s)
      [] key[1] = "Char" -> append_field(s, key[2], i)
      [] OTHER -> {s}

\* Form::input, the branch taken when self.selected is Active(i)
input_active(s, key, i) ==
    CASE key = Enter -> next_field(s)
      [] key = Esc -> select(s, Hovered(i))
      [] key = Backspace -> pop_field(s, i)
      [] key[1] = "Char" -> append_field(s, key[2], i)
      [] OTHER -> {s}

\* input_not_active whose Enter forgets the hovered index.
input_not_active_EnterFirst(s, key) ==
    CASE key = Esc -> select(s, NoSelection)
      [] key = Char("j") -> next_field(s)
      [] key = Char("k") -> prev_field(s)
      [] key = Enter -> {[s EXCEPT !.selected = Active(0)]}
      [] OTHER -> {s}

\* input_not_active with the two navigation characters exchanged.
input_not_active_Swapped(s, key) ==
    CASE key = Esc -> select(s, NoSelection)
      [] key = Char("j") -> prev_field(s)
      [] key = Char("k") -> next_field(s)
      [] key = Enter ->
            IF s.selected[1] = "Hovered"
            THEN {[s EXCEPT !.selected = Active(s.selected[2])]}
            ELSE {[s EXCEPT !.selected = Active(0)]}
      [] OTHER -> {s}

\* input_not_active whose Backspace deselects.
input_not_active_BackspaceDeselects(s, key) ==
    CASE key = Esc \/ key = Backspace -> select(s, NoSelection)
      [] key = Char("j") -> next_field(s)
      [] key = Char("k") -> prev_field(s)
      [] key = Enter ->
            IF s.selected[1] = "Hovered"
            THEN {[s EXCEPT !.selected = Active(s.selected[2])]}
            ELSE {[s EXCEPT !.selected = Active(0)]}
      [] OTHER -> {s}

\* Form::input, the branch taken otherwise
input_not_active(s, key) ==
    CASE key = Esc -> select(s, NoSelection)
      [] key = Char("j") -> next_field(s)
      [] key = Char("k") -> prev_field(s)
      [] key = Enter ->
            IF s.selected[1] = "Hovered"
            THEN {[s EXCEPT !.selected = Active(s.selected[2])]}
            ELSE {[s EXCEPT !.selected = Active(0)]}
      [] OTHER -> {s}

\* Form::input
input(s, key) ==
    IF s.selected[1] = "Active"
    THEN input_active(s, key, s.selected[2])
    ELSE input_not_active(s, key)

\* submit that also deselects.
submit_Deselects(s) == {[s EXCEPT !.submitted = TRUE, !.selected = NoSelection]}

\* Form::submit, its effect on the form (it returns status() of the result)
submit(s) == {[s EXCEPT !.submitted = TRUE]}

\* status that reports every field valid, submitted or not.
status_NeverValidates(s, fn) ==
    [k \in 1..Len(s.fields) |->
        [name |-> s.fields[k].name, val |-> s.fields[k].val, valid |-> TRUE]]

\* status that validates whether or not the form has been submitted.
status_IgnoresSubmitted(s, fn) ==
    [k \in 1..Len(s.fields) |->
        [name |-> s.fields[k].name,
         val |-> s.fields[k].val,
         valid |-> Validate(fn, s.fields[k].val)]]

\* Form::status: one Field (name, value, valid) per field buffer
status(s, fn) ==
    [k \in 1..Len(s.fields) |->
        [name |-> s.fields[k].name,
         val |-> s.fields[k].val,
         valid |-> IF s.submitted THEN Validate(fn, s.fields[k].val) ELSE TRUE]]

-----------------------------------------------------------------------------
(* The widget: Renderer::render_fields resolves each field's visual class.  *)

\* FieldRenderType that lets an invalid field override the selection.
FieldRenderType_InvalidFirst(hovered, active, is_invalid) ==
    CASE is_invalid -> "Invalid"
      [] active -> "Active"
      [] hovered -> "Hovered"
      [] OTHER -> "Normal"

\* match (hovered, active, is_invalid)
FieldRenderType(hovered, active, is_invalid) ==
    CASE active -> "Active"
      [] hovered /\ ~active -> "Hovered"
      [] ~hovered /\ ~active /\ is_invalid -> "Invalid"
      [] OTHER -> "Normal"

\* render_fields that compares the selection with a field's position counted
\* from one.
render_fields_OneBased(s, fn) ==
    LET st == status(s, fn) IN
    [k \in 1..Len(st) |->
        LET is_invalid == ~st[k].valid /\ s.submitted
            hovered == IF s.selected[1] = "Hovered" THEN s.selected[2] = k ELSE FALSE
            active == IF s.selected[1] = "Active" THEN s.selected[2] = k ELSE FALSE
        IN  FieldRenderType(hovered, active, is_invalid)]

\* Renderer::render_fields: the visual class of every field, in field order
render_fields(s, fn) ==
    LET st == status(s, fn) IN
    [k \in 1..Len(st) |->
        LET i == k - 1
            is_invalid == ~st[k].valid /\ s.submitted
            hovered == IF s.selected[1] = "Hovered" THEN s.selected[2] = i ELSE FALSE
            active == IF s.selected[1] = "Active" THEN s.selected[2] = i ELSE FALSE
        IN  FieldRenderType(hovered, active, is_invalid)]

\* Option<&str>: the title handed to the render_field functions
Some(t) == <<"Some", t>>
None == <<"None">>

\* match title { Some(t) => t, None => "" }
TitleText(title) == IF title[1] = "Some" THEN title[2] ELSE ""

\* The form's four style attributes, as the renderer reads them.
styles ==
    [default_field_style |-> default_field_style,
     invalid_field_style |-> invalid_field_style,
     hovered_field_style |-> hovered_field_style,
     active_field_style |-> active_field_style]

\* Renderer::render_field: what is drawn for a Normal field.  A Block that is
\* given no border_style and no title_style draws both with Style::default().
render_field(st, content, title) ==
    [title |-> TitleText(title), body |-> content, cursor |-> FALSE,
     border_style |-> StyleDefault, title_style |-> StyleDefault]

\* render_field_hovered that styles the title as it styles the border.
render_field_hovered_TitleStyled(st, content, title) ==
    [title |-> TitleText(title), body |-> content, cursor |-> FALSE,
     border_style |-> st.hovered_field_style,
     title_style |-> st.hovered_field_style]

\* Renderer::render_field_hovered
render_field_hovered(st, content, title) ==
    [title |-> TitleText(title), body |-> content, cursor |-> FALSE,
     border_style |-> st.hovered_field_style, title_style |-> StyleDefault]

\* Renderer::render_field_active: the content is followed by a reversed " "
render_field_active(st, content, title) ==
    [title |-> TitleText(title), body |-> content, cursor |-> TRUE,
     border_style |-> st.active_field_style,
     title_style |-> st.active_field_style]

\* Renderer::render_field_invalid
render_field_invalid(st, content, title) ==
    [title |-> TitleText(title), body |-> content, cursor |-> FALSE,
     border_style |-> st.invalid_field_style,
     title_style |-> st.invalid_field_style]

\* Renderer::render_field_gen
render_field_gen(st, content, title, fr) ==
    CASE fr = "Normal" -> render_field(st, content, title)
      [] fr = "Invalid" -> render_field_invalid(st, content, title)
      [] fr = "Hovered" -> render_field_hovered(st, content, title)
      [] fr = "Active" -> render_field_active(st, content, title)

\* Renderer::render_fields: what is drawn for every field, in field order
render(s, fn, st) ==
    LET fs == status(s, fn)
        render_type == render_fields(s, fn)
    IN  [k \in 1..Len(fs) |->
            render_field_gen(st, fs[k].val, Some(fs[k].name), render_type[k])]

\* Form::active_field_style
set_active_field_style(st, style) == [st EXCEPT !.active_field_style = style]

\* Form::invalid_field_style
set_invalid_field_style(st, style) == [st EXCEPT !.invalid_field_style = style]

\* Form::hovered_field_style
set_hovered_field_style(st, style) == [st EXCEPT !.hovered_field_style = style]

\* Form::default_field_style
set_default_field_style(st, style) == [st EXCEPT !.default_field_style = style]

-----------------------------------------------------------------------------
(* Construction. *)

\* The field buffers of a form built from n titles with empty values.
EmptyFields(n) == [k \in 1..n |-> [name |-> FieldName(k), val |-> <<>>]]

\* The field buffers of a form built from (title, value) pairs: the first
\* value is "alice", the others are empty.
PrefilledFields(n) ==
    [k \in 1..n |-> [name |-> FieldName(k), val |-> IF k = 1 THEN Alice ELSE <<>>]]

\* The number of characters the buffers hold.
RECURSIVE TotalLen(_)
TotalLen(fs) == IF fs = <<>> THEN 0 ELSE Len(Head(fs).val) + TotalLen(Tail(fs))

\* The keys of example scenario A, in order.
ScenarioAKeys ==
    <<Char("j"), Char("j"), Enter, Char("x"), Char("y"), Char("z"), Esc>>

\* The history is not a prefix of scenario A.
Off == Len(ScenarioAKeys) + 1

\* The key codes scenario A presses.
ScenarioAKeySet == {ScenarioAKeys[k] : k \in DOMAIN ScenarioAKeys}

\* impl Default for Form, with the fields and the validator of the constructor
Construct(fs, fn) ==
    /\ fields = fs
    /\ validation_fn = fn
    /\ selected = NoSelection
    /\ submitted = FALSE
    /\ default_field_style = StyleDefault
    /\ invalid_field_style = StyleRedBold
    /\ hovered_field_style = StyleCyan
    /\ active_field_style = StyleCyanBold
    /\ panicked = FALSE
    /\ op = <<"new">>

\* Form::from(Vec<&str>), Form::from(Vec<(&str, &str)>), Form::new
Forms(n) ==
    \/ Construct(EmptyFields(n), "non_empty")
    \/ n >= 1 /\ Construct(PrefilledFields(n), "non_empty")
    \/ \E fn \in Validators : Construct(EmptyFields(n), fn)

\* Any form, of any number of fields.
Init == scenario = Off /\ \E n \in 0..MaxFields : Forms(n)

\* Any form with at least one field.
InitNonEmpty == scenario = Off /\ \E n \in 1..MaxFields : Forms(n)

\* The form of scenario A: Form::from(vec!["Account", "Username", "Password"]).
InitScenarioA == scenario = 0 /\ Construct(EmptyFields(3), "non_empty")

-----------------------------------------------------------------------------
(* Actions: one call of a public operation on a form that has not panicked. *)

\* The call's outcome r becomes the state.
Commit(r) ==
    /\ selected' = r.selected
    /\ fields' = r.fields
    /\ submitted' = r.submitted
    /\ panicked' = r.panicked
    /\ UNCHANGED <<validation_fn, style_vars>>

\* The inputs select() is called with: every index of a field and the first
\* index past the fields.
SelectArgs ==
    {NoSelection}
        \cup {Hovered(i) : i \in 0..Len(fields)}
        \cup {Active(i) : i \in 0..Len(fields)}

Select ==
    /\ ~panicked
    /\ \E sel \in SelectArgs : \E r \in select(self, sel) : Commit(r)
    /\ op' = <<"select">>
    /\ scenario' = Off

Deselect ==
    /\ ~panicked
    /\ \E r \in deselect(self) : Commit(r)
    /\ op' = <<"deselect">>
    /\ scenario' = Off

Submit ==
    /\ ~panicked
    /\ \E r \in submit(self) : Commit(r)
    /\ op' = <<"submit">>
    /\ scenario' = Off

SetSubmitted ==
    /\ ~panicked
    /\ \E b \in BOOLEAN : \E r \in set_submitted(self, b) : Commit(r)
    /\ op' = <<"submitted">>
    /\ scenario' = Off

\* Status that marks the form submitted.
Status_Submits ==
    /\ ~panicked
    /\ op' = <<"status">>
    /\ submitted' = TRUE
    /\ UNCHANGED <<fields, selected, validation_fn, style_vars, panicked, scenario>>

Status ==
    /\ ~panicked
    /\ op' = <<"status">>
    /\ UNCHANGED <<fields, selected, submitted, validation_fn, style_vars,
                   panicked, scenario>>

Render ==
    /\ ~panicked
    /\ op' = <<"render">>
    /\ UNCHANGED <<fields, selected, submitted, validation_fn, style_vars,
                   panicked, scenario>>

\* prev_field() counts an index above the fields down one call at a time, from
\* as far as usize::MAX; the model follows the countdown for one call only.
CanStepBack ==
    IF selected = NoSelection
    THEN TRUE
    ELSE selected[2] <= Len(fields) \/ selected[2] = UsizeMax

NextField ==
    /\ ~panicked
    /\ \E r \in next_field(self) : Commit(r)
    /\ op' = <<"next_field">>
    /\ scenario' = Off

PrevField ==
    /\ ~panicked
    /\ CanStepBack
    /\ \E r \in prev_field(self) : Commit(r)
    /\ op' = <<"prev_field">>
    /\ scenario' = Off

\* The model types one more character: always on the script of scenario A,
\* which is finite, and off it while the buffers are short.
HasRoom == scenario # Off \/ TotalLen(fields) < MaxChars

\* One call of input(key).
InputKey(key) ==
    /\ ~panicked
    /\ (selected[1] = "Active" /\ key[1] = "Char") => HasRoom
    /\ (selected[1] # "Active" /\ key = Char("k")) => CanStepBack
    /\ \E r \in input(self, key) : Commit(r)
    /\ op' = <<"input", key>>
    /\ scenario' = IF /\ scenario # Off
                      /\ scenario < Len(ScenarioAKeys)
                      /\ key = ScenarioAKeys[scenario + 1]
                   THEN scenario + 1
                   ELSE Off

Input == \E key \in Keys : InputKey(key)

\* A key of scenario A is pressed, in any order.
ScenarioInput == \E key \in ScenarioAKeySet : InputKey(key)

AppendSelection ==
    /\ ~panicked
    /\ \E ch \in Chars :
        /\ selected[1] = "Active" => HasRoom
        /\ \E r \in append_selection(self, ch) : Commit(r)
    /\ op' = <<"append_selection">>
    /\ scenario' = Off

PopSelection ==
    /\ ~panicked
    /\ \E r \in pop_selection(self) : Commit(r)
    /\ op' = <<"pop_selection">>
    /\ scenario' = Off

Next ==
    \/ Select
    \/ Deselect
    \/ Submit
    \/ SetSubmitted
    \/ Status
    \/ Render
    \/ NextField
    \/ PrevField
    \/ Input
    \/ AppendSelection
    \/ PopSelection

\* Every public operation that changes selection, buffers or the submitted
\* flag, with status() and render, on any form; the styles stay as constructed.
Spec == Init /\ [][Next]_vars

\* Navigation and key input only, on a freshly constructed form with fields.
NextKeys ==
    \/ NextField
    \/ PrevField
    \/ Input

SpecKeys == InitNonEmpty /\ [][NextKeys]_vars

\* The style attributes st become the form's; nothing else changes.
CommitStyles(st) ==
    /\ default_field_style' = st.default_field_style
    /\ invalid_field_style' = st.invalid_field_style
    /\ hovered_field_style' = st.hovered_field_style
    /\ active_field_style' = st.active_field_style
    /\ scenario' = Off
    /\ UNCHANGED <<fields, selected, submitted, validation_fn, panicked>>

SetActiveFieldStyle ==
    /\ ~panicked
    /\ \E style \in StyleArgs : CommitStyles(set_active_field_style(styles, style))
    /\ op' = <<"active_field_style">>

SetInvalidFieldStyle ==
    /\ ~panicked
    /\ \E style \in StyleArgs : CommitStyles(set_invalid_field_style(styles, style))
    /\ op' = <<"invalid_field_style">>

SetHoveredFieldStyle ==
    /\ ~panicked
    /\ \E style \in StyleArgs : CommitStyles(set_hovered_field_style(styles, style))
    /\ op' = <<"hovered_field_style">>

SetDefaultFieldStyle ==
    /\ ~panicked
    /\ \E style \in StyleArgs : CommitStyles(set_default_field_style(styles, style))
    /\ op' = <<"default_field_style">>

\* Styling, selecting, submitting and rendering, on any form.
NextStyles ==
    \/ SetActiveFieldStyle
    \/ SetInvalidFieldStyle
    \/ SetHoveredFieldStyle
    \/ SetDefaultFieldStyle
    \/ Select
    \/ Submit
    \/ Render

SpecStyles == Init /\ [][NextStyles]_vars

\* The keys of scenario A on the form of scenario A.
NextScenarioA == ScenarioInput

SpecScenarioA == InitScenarioA /\ [][NextScenarioA]_vars

-----------------------------------------------------------------------------
(* Properties. *)

\* The buffer values, in field order.
Values == [k \in 1..Len(fields) |-> fields[k].val]

\* The validity flags status() reports, in field order.
Validity == [k \in 1..Len(fields) |-> status(self, validation_fn)[k].valid]

\* C1: on a form with at least one field, after any sequence of next_field(),
\* prev_field() and input(key) calls from the constructed state, the selection
\* is NoSelection or carries the index of a field.
C1_SelectionInRange ==
    \/ selected = NoSelection
    \/ /\ selected[1] \in {"Hovered", "Active"}
       /\ 0 <= selected[2]
       /\ selected[2] < Len(fields)

\* C1: prev_field() has wrapped to the last of three fields.
C1_Witness ==
    /\ op = <<"prev_field">>
    /\ Len(fields) = 3
    /\ selected \in {Hovered(2), Active(2)}

\* The visual class section 4.2 of the specification gives field i (0-based).
ExpectedClass(i) ==
    IF selected = Active(i) THEN "Active"
    ELSE IF selected = Hovered(i) THEN "Hovered"
    ELSE IF submitted /\ ~Validate(validation_fn, fields[i + 1].val) THEN "Invalid"
    ELSE "Normal"

\* C2: the visual class render_fields() gives every field is Active for the
\* active field, else Hovered for the hovered one, else Invalid for a field the
\* validator rejects on a submitted form, else Normal.
C2_VisualClassPriority ==
    LET classes == render_fields(self, validation_fn) IN
    /\ Len(classes) = Len(fields)
    /\ \A i \in 0..(Len(fields) - 1) : classes[i + 1] = ExpectedClass(i)

\* C2: a render of a submitted form whose active field is invalid, and one
\* whose hovered field is invalid.
C2_Witness ==
    /\ op = <<"render">>
    /\ submitted
    /\ selected # NoSelection
    /\ selected[2] < Len(fields)
    /\ ~Validate(validation_fn, fields[selected[2] + 1].val)
    /\ render_fields(self, validation_fn)[selected[2] + 1] = selected[1]
    /\ \E k \in 1..Len(fields) : render_fields(self, validation_fn)[k] = "Invalid"

\* Every flag status() reports is the validator's verdict on the buffer.
StatusReflectsValidator ==
    \A k \in 1..Len(fields) :
        Validity[k] = Validate(validation_fn, fields[k].val)

\* C3 as stated: once submit() has been called, every later state's status()
\* reports the validator's verdict; here for the state that follows the call's.
C3_Original == [][op = <<"submit">> => StatusReflectsValidator']_vars

\* C3, amended: while the submitted flag is set, status() and submit() report
\* for every field the validator's verdict on its current buffer; submit() of
\* the buffers ["alice", "", ""] under the default validator returns
\* [valid, invalid, invalid].
C3_ValidityWhileSubmitted ==
    /\ submitted => StatusReflectsValidator
    /\ ( /\ op = <<"submit">>
         /\ validation_fn = "non_empty"
         /\ Values = <<Alice, <<>>, <<>> >> )
       => Validity = <<TRUE, FALSE, FALSE>>

\* C3: submit() has returned [valid, invalid, invalid] for ["alice", "", ""].
C3_Witness ==
    /\ op = <<"submit">>
    /\ validation_fn = "non_empty"
    /\ Values = <<Alice, <<>>, <<>> >>
    /\ Validity = <<TRUE, FALSE, FALSE>>

\* C4: while the form is not submitted, status() reports every field valid.
C4_ValidBeforeSubmit ==
    ~submitted => \A k \in 1..Len(fields) : Validity[k]

\* C4: status() of a form that is not submitted, one of whose buffers is not
\* empty and is rejected by the validator.
C4_Witness ==
    /\ op = <<"status">>
    /\ ~submitted
    /\ \E k \in 1..Len(fields) :
        /\ fields[k].val # <<>>
        /\ ~Validate(validation_fn, fields[k].val)
        /\ Validity[k]

\* C5 as stated: two presses of 'j' hover field 2, Enter activates it, the
\* three characters go to field 2, Esc hovers field 2.
C5_Original ==
    /\ scenario = 2 => selected = Hovered(2)
    /\ scenario = 3 => selected = Active(2)
    /\ scenario = 6 => fields[3].val = <<"x", "y", "z">>
    /\ scenario = 7 => selected = Hovered(2)

\* C5, amended: in scenario A two presses of 'j' yield Hovered(1), Enter then
\* yields Active(1), typing 'x', 'y', 'z' makes field 1's buffer "xyz", and Esc
\* yields Hovered(1).
C5_ScenarioA ==
    /\ scenario = 2 => selected = Hovered(1)
    /\ scenario = 3 => selected = Active(1)
    /\ scenario = 6 => selected = Active(1) /\ Values = << <<>>, <<"x", "y", "z">>, <<>> >>
    /\ scenario = 7 => selected = Hovered(1) /\ Values = << <<>>, <<"x", "y", "z">>, <<>> >>

\* C5: scenario A has been played to its end.
C5_Witness ==
    /\ scenario = Len(ScenarioAKeys)
    /\ op = <<"input", Esc>>
    /\ selected = Hovered(1)
    /\ fields[2].val = <<"x", "y", "z">>

\* The selection is NoSelection or carries the index of a field.
InRange(sel) == IF sel = NoSelection THEN TRUE ELSE sel[2] < Len(fields)

\* C6: on a form without fields a call of next_field() or prev_field() does
\* not panic and leaves the selection as it is or without an index.
C6_EmptyFormNavigation ==
    [][(Len(fields) = 0 /\ op' \in {<<"next_field">>, <<"prev_field">>})
        => (~panicked' /\ selected' \in {selected, NoSelection})]_vars

\* C7: on a form with fields, whatever public operations have been called,
\* the index a Hovered or Active selection carries is below the field count.
C7_IndexBelowFieldCount ==
    (Len(fields) > 0 /\ selected # NoSelection) => selected[2] < Len(fields)

\* The selection the specification gives next_field() on n fields.
ExpectedNext(sel, n) ==
    IF sel = NoSelection THEN Hovered(0) ELSE <<sel[1], (sel[2] + 1) % n>>

\* The selection the specification gives prev_field() on n fields.
ExpectedPrev(sel, n) ==
    IF sel = NoSelection THEN Hovered(0) ELSE <<sel[1], (sel[2] - 1 + n) % n>>

\* C8: on n >= 1 fields and from NoSelection or an index of a field,
\* next_field() and prev_field() yield Hovered(0) from NoSelection and
\* otherwise the same variant at (i + 1) mod n and (i - 1 + n) mod n.
C8_NavigationSteps ==
    [][(Len(fields) >= 1 /\ InRange(selected)) =>
        /\ op' = <<"next_field">> =>
                ~panicked' /\ selected' = ExpectedNext(selected, Len(fields))
        /\ op' = <<"prev_field">> =>
                ~panicked' /\ selected' = ExpectedPrev(selected, Len(fields))]_vars

\* C8: prev_field() has yielded Hovered(2) on a form of three fields.
C8_Witness ==
    /\ op = <<"prev_field">>
    /\ Len(fields) = 3
    /\ selected = Hovered(2)
    /\ ~panicked

\* C9: while no field is active, input(Enter) activates the hovered field, or
\* field 0 when none is hovered, and changes neither buffers nor submitted.
C9_EnterActivates ==
    [][(selected[1] # "Active" /\ op' = <<"input", Enter>>) =>
        /\ selected' = IF selected[1] = "Hovered" THEN Active(selected[2]) ELSE Active(0)
        /\ fields' = fields
        /\ submitted' = submitted]_vars

\* C9: input(Enter) has activated a field other than field 0.
C9_Witness ==
    /\ op = <<"input", Enter>>
    /\ selected[1] = "Active"
    /\ selected[2] = Len(fields) - 1
    /\ Len(fields) >= 2
    /\ ~panicked

\* The form after a call, as an outcome of the call.
outcome == [selected |-> selected, fields |-> fields, submitted |-> submitted,
            panicked |-> panicked]

\* C10: while no field is active, input(Esc) yields NoSelection, input('j')
\* yields what next_field() yields and input('k') what prev_field() yields,
\* and none of the three changes a buffer.
C10_NotActiveKeys ==
    [][selected[1] # "Active" =>
        /\ op' = <<"input", Esc>> => ~panicked' /\ selected' = NoSelection
        /\ op' = <<"input", Char("j")>> => outcome' \in next_field(self)
        /\ op' = <<"input", Char("k")>> => outcome' \in prev_field(self)
        /\ op' \in {<<"input", Esc>>, <<"input", Char("j")>>, <<"input", Char("k")>>}
                => fields' = fields]_vars

\* C10: input('k') has wrapped the hover to the last of several fields.
C10_Witness ==
    /\ op = <<"input", Char("k")>>
    /\ Len(fields) >= 2
    /\ selected = Hovered(Len(fields) - 1)
    /\ ~panicked

\* The selection is Active(i) for a field i.
EditingField == selected[1] = "Active" /\ selected[2] < Len(fields)

\* C11: from Active(i), input(Esc) yields Hovered(i) and changes neither
\* buffers nor submitted.
C11_EscLeavesEdit ==
    [][(selected[1] = "Active" /\ op' = <<"input", Esc>>) =>
        /\ ~panicked'
        /\ selected' = Hovered(selected[2])
        /\ fields' = fields
        /\ submitted' = submitted]_vars

\* C11: input(Esc) has left a hover on a field other than field 0.
C11_Witness ==
    /\ op = <<"input", Esc>>
    /\ selected[1] = "Hovered"
    /\ selected[2] >= 1
    /\ selected[2] < Len(fields)
    /\ TotalLen(fields) > 0

\* C12: from Active(i) on n >= 1 fields, i + 1 representable, input(Enter)
\* yields Active((i + 1) mod n), which is on a field index, and changes no
\* buffer: Enter presses alone never leave the Active mode.
C12_EnterAdvancesInEdit ==
    [][(/\ selected[1] = "Active"
        /\ Len(fields) >= 1
        /\ selected[2] < UsizeMax
        /\ op' = <<"input", Enter>>) =>
        /\ ~panicked'
        /\ selected' = Active((selected[2] + 1) % Len(fields))
        /\ EditingField'
        /\ fields' = fields]_vars

\* C12: input(Enter) has left field 0 of three fields active.
C12_Witness ==
    /\ op = <<"input", Enter>>
    /\ Len(fields) = 3
    /\ selected = Active(0)
    /\ ~panicked

\* C13: from Active(i), i a field index, input(Char(c)) appends c, 'j' and 'k'
\* included, to the buffer of field i and leaves the selection at Active(i).
C13_CharAppends ==
    [][\A c \in Chars :
        (EditingField /\ op' = <<"input", Char(c)>>) =>
            /\ ~panicked'
            /\ fields' = [fields EXCEPT ![selected[2] + 1].val = Append(@, c)]
            /\ selected' = selected]_vars

\* C13: input(Char('j')) has appended 'j' to a buffer that was not empty.
C13_Witness ==
    /\ op = <<"input", Char("j")>>
    /\ EditingField
    /\ Len(fields[selected[2] + 1].val) >= 2
    /\ fields[selected[2] + 1].val[Len(fields[selected[2] + 1].val)] = "j"

\* C14: from Active(i), i a field index, input(Backspace) removes the last
\* character of the buffer of field i, changes nothing when that buffer is
\* empty, does not panic and leaves the selection at Active(i).
C14_BackspacePops ==
    [][(EditingField /\ op' = <<"input", Backspace>>) =>
        /\ ~panicked'
        /\ fields' = [fields EXCEPT ![selected[2] + 1].val =
                        IF @ = <<>> THEN <<>> ELSE SubSeq(@, 1, Len(@) - 1)]
        /\ selected' = selected
        /\ submitted' = submitted]_vars

\* C14: input(Backspace) has removed the last character of "alice".
C14_Witness ==
    /\ op = <<"input", Backspace>>
    /\ selected = Active(0)
    /\ Len(fields) >= 1
    /\ fields[1].val = <<"a", "l", "i", "c">>

\* The keys input() ignores: outside Esc, 'j', 'k', Enter while no field is
\* active, outside Enter, Esc, Backspace and the characters while one is.
IgnoredKeys(sel) ==
    IF sel[1] = "Active"
    THEN Keys \ ({Enter, Esc, Backspace} \cup {Char(c) : c \in Chars})
    ELSE Keys \ {Esc, Char("j"), Char("k"), Enter}

\* C15: input() of a key outside the grammar of the mode leaves selection,
\* buffers and submitted as they are.
C15_OtherKeysIgnored ==
    [][\A key \in IgnoredKeys(selected) :
        op' = <<"input", key>> =>
            /\ ~panicked'
            /\ selected' = selected
            /\ fields' = fields
            /\ submitted' = submitted]_vars

\* C15: input(Backspace) has been ignored on a hovered field whose form holds
\* characters.
C15_Witness ==
    /\ op = <<"input", Backspace>>
    /\ selected[1] = "Hovered"
    /\ TotalLen(fields) > 0

\* C16: submit() sets submitted and changes neither selection nor buffers.
C16_SubmitOnlySetsFlag ==
    [][op' = <<"submit">> =>
        /\ ~panicked'
        /\ submitted'
        /\ selected' = selected
        /\ fields' = fields
        /\ validation_fn' = validation_fn]_vars

\* C16: submit() has been called while a field holding characters is active.
C16_Witness ==
    /\ op = <<"submit">>
    /\ submitted
    /\ EditingField
    /\ fields[selected[2] + 1].val # <<>>

\* C17: status() changes nothing of the form, so the call that follows it
\* with no mutation in between returns the same fields.
C17_StatusReadOnly ==
    [][op' = <<"status">> =>
        /\ UNCHANGED <<fields, selected, submitted, validation_fn, panicked>>
        /\ status(self, validation_fn)' = status(self, validation_fn)]_vars

\* C17: status() of a submitted form with a field the validator rejects.
C17_Witness ==
    /\ op = <<"status">>
    /\ submitted
    /\ \E k \in 1..Len(fields) : ~Validity[k]

\* C18: deselect() yields NoSelection and changes neither buffers nor
\* submitted.
C18_DeselectClears ==
    [][op' = <<"deselect">> =>
        /\ ~panicked'
        /\ selected' = NoSelection
        /\ fields' = fields
        /\ submitted' = submitted]_vars

\* C18: deselect() on a submitted form that holds characters.
C18_Witness ==
    /\ op = <<"deselect">>
    /\ selected = NoSelection
    /\ submitted
    /\ TotalLen(fields) > 0

\* What render() draws for the form.
Drawn == render(self, validation_fn, styles)

\* The visual class render_fields() gives every field.
Classes == render_fields(self, validation_fn)

\* The form's style attribute for a visual class.
StyleOf(cls) ==
    CASE cls = "Normal" -> default_field_style
      [] cls = "Invalid" -> invalid_field_style
      [] cls = "Hovered" -> hovered_field_style
      [] cls = "Active" -> active_field_style

\* C19: a render draws every field, at least its border, with the form's
\* current style attribute for the field's visual class, so that a style set
\* by a mutator shows on the next render.
C19_StylesTakeEffect ==
    op = <<"render">> =>
        \A k \in 1..Len(fields) : Drawn[k].border_style = StyleOf(Classes[k])

\* C20: every field is drawn with its name as title and its buffer as body,
\* with the cursor glyph exactly when its class is Active, and with a title
\* styled by the active style for Active, by the invalid style for Invalid,
\* and undecorated for Hovered and Normal.
C20_FieldDescriptor ==
    /\ Len(Drawn) = Len(fields)
    /\ \A k \in 1..Len(fields) :
        /\ Drawn[k].title = fields[k].name
        /\ Drawn[k].body = fields[k].val
        /\ Drawn[k].cursor <=> Classes[k] = "Active"
        /\ Drawn[k].title_style =
            CASE Classes[k] = "Active" -> active_field_style
              [] Classes[k] = "Invalid" -> invalid_field_style
              [] OTHER -> StyleDefault

\* C20: a render, after every style was set, of a submitted form whose
\* hovered field holds "alice" and that has an invalid field.
C20_Witness ==
    /\ op = <<"render">>
    /\ submitted
    /\ \A st \in {default_field_style, invalid_field_style,
                  hovered_field_style, active_field_style} : st \in StyleArgs
    /\ \E k \in 1..Len(fields) :
        Classes[k] = "Hovered" /\ fields[k].val = Alice
    /\ \E k \in 1..Len(fields) : Classes[k] = "Invalid"

\* The calls that edit: input(key) of any key, append_selection, pop_selection.
EditingOps ==
    {<<"input", key>> : key \in Keys}
        \cup {<<"append_selection">>, <<"pop_selection">>}

\* C21: no step changes the number, the order or the names of the fields; a
\* step that changes a buffer is a call of input(), append_selection() or
\* pop_selection() made while the selection is Active(i) with i a field
\* index, and it changes the buffer of field i only.
C21_BuffersChangeOnlyInEdit ==
    [][/\ Len(fields') = Len(fields)
       /\ \A k \in 1..Len(fields) : fields'[k].name = fields[k].name
       /\ fields' # fields =>
            /\ op' \in EditingOps
            /\ selected[1] = "Active"
            /\ selected[2] < Len(fields)
            /\ \A k \in 1..Len(fields) :
                k # selected[2] + 1 => fields'[k] = fields[k]]_vars

\* C21: append_selection() has edited field 1 of three fields and left the
\* buffers of the other two as they were.
C21_Witness ==
    /\ op = <<"append_selection">>
    /\ Len(fields) = 3
    /\ selected = Active(1)
    /\ fields[1].val # <<>>
    /\ Len(fields[2].val) = 1
    /\ fields[3].val = <<>>

\* C22: a step that changes the submitted flag is a call of submit() or of
\* the submitted(bool) setter: input() of any key, next_field(), prev_field(),
\* select(), deselect() and every other call leave it as it is, so that it
\* stays true after submit() through any sequence of them.
C22_SubmittedChangesOnlyBySubmit ==
    [][submitted' # submitted => op' \in {<<"submit">>, <<"submitted">>}]_vars

\* C22: deselect() on a form that was submitted while a field was edited to
\* hold characters, with the flag still set.
C22_Witness ==
    /\ op = <<"deselect">>
    /\ submitted
    /\ ~panicked
    /\ validation_fn = "len_ge_2"
    /\ TotalLen(fields) = MaxChars

\* A call of next_field() on each form of S that has not panicked.
ThenNext(S) == UNION {IF r.panicked THEN {r} ELSE next_field(r) : r \in S}

\* A call of prev_field() on each form of S that has not panicked.
ThenPrev(S) == UNION {IF r.panicked THEN {r} ELSE prev_field(r) : r \in S}

\* k calls of next_field() in a row.
RECURSIVE NextTimes(_, _)
NextTimes(k, S) == IF k = 0 THEN S ELSE NextTimes(k - 1, ThenNext(S))

\* k calls of prev_field() in a row.
RECURSIVE PrevTimes(_, _)
PrevTimes(k, S) == IF k = 0 THEN S ELSE PrevTimes(k - 1, ThenPrev(S))

\* C23: on n >= 1 fields and from Hovered(i) or Active(i) with i < n,
\* prev_field() after next_field() and next_field() after prev_field() restore
\* the form, as do n calls of next_field() and n calls of prev_field(); from
\* NoSelection, next_field() then prev_field() yields Hovered(n - 1).
C23_NavigationInverse ==
    LET n == Len(fields) IN
    n >= 1 =>
        /\ (selected # NoSelection /\ selected[2] < n) =>
            /\ ThenPrev(next_field(self)) = {self}
            /\ ThenNext(prev_field(self)) = {self}
            /\ NextTimes(n, {self}) = {self}
            /\ PrevTimes(n, {self}) = {self}
        /\ selected = NoSelection =>
            ThenPrev(next_field(self)) = {[self EXCEPT !.selected = Hovered(n - 1)]}

\* C23: next_field() has wrapped from the last of three fields to Active(0),
\* from where prev_field() wraps back.
C23_Witness ==
    /\ op = <<"next_field">>
    /\ Len(fields) = 3
    /\ selected = Active(0)
    /\ ThenPrev({self}) = {[self EXCEPT !.selected = Active(2)]}

\* The fields (counted from one) that a render draws as selected.
Highlighted == {k \in 1..Len(fields) : Classes[k] \in {"Active", "Hovered"}}

\* C24: in a render of n >= 1 fields at most one field has class Active or
\* Hovered: field i alone, with the class of the selection, when the selection
\* is Hovered(i) or Active(i) with i < n, and none when it is NoSelection;
\* every other field is Invalid or Normal.
C24_OneHighlight ==
    Len(fields) >= 1 =>
        /\ Cardinality(Highlighted) <= 1
        /\ (selected # NoSelection /\ selected[2] < Len(fields)) =>
            /\ Highlighted = {selected[2] + 1}
            /\ Classes[selected[2] + 1] = selected[1]
        /\ selected = NoSelection => Highlighted = {}
        /\ \A k \in 1..Len(fields) \ Highlighted :
            Classes[k] \in {"Invalid", "Normal"}

\* C24: a render of three fields, submitted, that draws the first field as
\* Active and the other two as Invalid.
C24_Witness ==
    /\ op = <<"render">>
    /\ Classes = <<"Active", "Invalid", "Invalid">>
    /\ Highlighted = {1}

=============================================================================
